---- MODULE Spec2Model ----
(***************************************************************************)
(* Bookmark extraction and page-range planning of the PDF splitter:        *)
(* get_pdf_bookmark.py (destination resolver, flattener, level inference)  *)
(* and split_pdf.py (page-number conversion, range planner, splitter).     *)
(*                                                                         *)
(* Titles are sequences of one-character strings, so that the regular      *)
(* expressions of is_child_bookmark are computed character by character.   *)
(* A page object (the value under a bookmark's 'page' key) is a record     *)
(* [k, n, g, s, o]: k is its Python kind, n its integer value or object    *)
(* id, g the generation of a reference, s the characters of a str, o what  *)
(* get_object() does.                                                      *)
(***************************************************************************)
EXTENDS Integers, Sequences, FiniteSets, TLC

VARIABLES
    pc,             \* position of the run: which function is about to run / has returned
    title,          \* is_child_bookmark: argument title
    parent_title,   \* is_child_bookmark: argument parent_title
    is_child,       \* is_child_bookmark: returned value
    bookmarks,      \* the bookmark dicts (argument of infer_bookmark_level / get_page_ranges)
    inferred,       \* infer_bookmark_level: returned list
    total_pages,    \* get_page_ranges / split_pdf: total_pages
    split_level,    \* get_page_ranges / split_pdf: split_level
    pdf_pages,      \* pdf_reader.pages: the indirect_reference of every page, in order
    ranges,         \* get_page_ranges: returned list
    outline,        \* reader.outline: the raw outline handed to flatten_bookmarks
    flat_bookmarks, \* extract_bookmarks: local flat_bookmarks
    entry,          \* get_bookmark_page / convert_to_page_number: the argument
    page,           \* get_bookmark_page / convert_to_page_number: returned value
    range_i,        \* split_pdf: index of the loop of line 234 (1-based)
    written         \* split_pdf: the files written so far, with their pages

vars == <<pc, title, parent_title, is_child, bookmarks, inferred, total_pages,
          split_level, pdf_pages, ranges, outline, flat_bookmarks, entry, page,
          range_i, written>>

-----------------------------------------------------------------------------
(* Bounds of the model *)

MaxTitleLen == 4
MaxBookmarks == 3
MaxPages == 3
MaxNodes == 3

\* the levels a bookmark of the model carries
Levels == {0, 1}

-----------------------------------------------------------------------------
(* Characters and titles *)

Digits == {"0", "1", "2", "3", "4", "5", "6", "7", "8", "9"}

IsDigit(c) == c \in Digits

\* \s of the regular expressions; the titles of the model hold no other
\* whitespace than the space
IsSpace(c) == c = " "

StartsWith(s, p) ==
    /\ Len(p) <= Len(s)
    /\ SubSeq(s, 1, Len(p)) = p

\* the position after the run of digits that starts at position i (i when
\* s[i] is no digit): \d+ matched greedily
RECURSIVE DigitRun(_, _)
DigitRun(s, i) ==
    IF i <= Len(s) /\ IsDigit(s[i]) THEN DigitRun(s, i + 1) ELSE i

\* the position after the longest run of (\.\d+) groups that starts at i
RECURSIVE DotGroups(_, _)
DotGroups(s, i) ==
    IF i <= Len(s) /\ s[i] = "." /\ DigitRun(s, i + 1) > i + 1
    THEN DotGroups(s, DigitRun(s, i + 1))
    ELSE i

\* length of the greedy match of ^\d+(\.\d+)* on s, 0 when s does not
\* start with a digit
NumPrefixLen(s) ==
    IF DigitRun(s, 1) = 1 THEN 0 ELSE DotGroups(s, DigitRun(s, 1)) - 1

\* re.match(r'^\d+(\.\d+)*', s).group(0)
NumPrefix(s) == SubSeq(s, 1, NumPrefixLen(s))

\* the match has at least one (\.\d+) group
HasDotGroup(s) == DigitRun(s, 1) > 1 /\ NumPrefixLen(s) > DigitRun(s, 1) - 1

\* re.match(r'^\d+(\.\d+)*\s', s): every shorter match of the prefix is
\* followed by a digit or a dot, so only the greedy one can be followed by \s
MatchParentPattern(s) ==
    /\ NumPrefixLen(s) > 0
    /\ Len(s) > NumPrefixLen(s)
    /\ IsSpace(s[NumPrefixLen(s) + 1])

\* re.match(r'^\d+(\.\d+)+\s', s)
MatchChildPattern(s) == MatchParentPattern(s) /\ HasDotGroup(s)

\* len(re.findall(r'\.', s))
CountDots(s) == Cardinality({i \in 1..Len(s) : s[i] = "."})

\* s.split(' ')[0]: what precedes the first space, all of s when it has none
RECURSIVE FirstToken(_)
FirstToken(s) ==
    IF s = <<>> \/ s[1] = " " THEN <<>> ELSE <<s[1]>> \o FirstToken(Tail(s))

-----------------------------------------------------------------------------
(* get_pdf_bookmark.py: is_child_bookmark *)

\* rule 1 (numeric prefix): lines 164-168
NumericPrefixRule(t, p) ==
    /\ MatchParentPattern(p)
    /\ MatchChildPattern(t)
    /\ StartsWith(NumPrefix(t), NumPrefix(p) \o <<".">>)

\* rule 2 (nesting depth): lines 171-174
NestingDepthRule(t, p) ==
    /\ (CountDots(p) + 1) + 1 = CountDots(t) + 1
    /\ StartsWith(t, FirstToken(p))

is_child_bookmark(t, p) == NumericPrefixRule(t, p) \/ NestingDepthRule(t, p)

-----------------------------------------------------------------------------
(* Page objects and bookmarks *)

\* what page_ref.get_object() does: "na" for an object that is no reference,
\* "raise" when it raises, "int" when it returns the number n, "dict" when
\* it returns a dictionary whose '/StructParents' is n (-1: no such key),
\* "other" for any other object; d is the first run of digits in str() of
\* the returned object (-1: none)
Deref(k, n, d) == [k |-> k, n |-> n, d |-> d]

NoDeref == Deref("na", 0, 0)

NoneObj == [k |-> "none", n |-> 0, g |-> 0, s |-> <<>>, o |-> NoDeref]

IntObj(n) == [k |-> "int", n |-> n, g |-> 0, s |-> <<>>, o |-> NoDeref]

StrObj(s) == [k |-> "str", n |-> 0, g |-> 0, s |-> s, o |-> NoDeref]

\* an IndirectObject: object id, generation, and what get_object() does
RefObj(idnum, gen, o) == [k |-> "ref", n |-> idnum, g |-> gen, s |-> <<>>, o |-> o]

Bookmark(t, p, l) == [title |-> t, page |-> p, level |-> l]

\* all sequences over S of length at most n
SeqsUpTo(S, n) == UNION {[1..m -> S] : m \in 0..n}

-----------------------------------------------------------------------------
(* get_pdf_bookmark.py: infer_bookmark_level *)

\* the inner loop of lines 195-199 without the break of line 199: the last
\* j < i whose title makes titles[i] a child decides
RECURSIVE FirstParentFrom_LastMatch(_, _, _)
FirstParentFrom_LastMatch(titles, i, j) ==
    IF j >= i THEN 0
    ELSE LET later == FirstParentFrom_LastMatch(titles, i, j + 1)
         IN  IF later > 0 THEN later
             ELSE IF is_child_bookmark(titles[i], titles[j]) THEN j
             ELSE 0

\* the inner loop of lines 195-199: the first j < i whose title makes
\* titles[i] a child, 0 when the loop ends without a break
RECURSIVE FirstParentFrom(_, _, _)
FirstParentFrom(titles, i, j) ==
    IF j >= i THEN 0
    ELSE IF is_child_bookmark(titles[i], titles[j]) THEN j
    ELSE FirstParentFrom(titles, i, j + 1)

\* the outer loop of lines 194-199: levels holds the levels of entries
\* 1..i-1; every entry starts at level 0 (line 189)
RECURSIVE InferLevels(_, _, _)
InferLevels(titles, i, levels) ==
    IF i > Len(titles) THEN levels
    ELSE LET j == FirstParentFrom(titles, i, 1)
         IN  InferLevels(titles, i + 1,
                 Append(levels, IF j = 0 THEN 0 ELSE levels[j] + 1))

\* lines 186-199 with line 189 copying the level of the input bookmark
\* instead of setting 0: an entry without a parent keeps its input level
RECURSIVE InferLevels_KeepLevels(_, _, _, _)
InferLevels_KeepLevels(titles, given, i, levels) ==
    IF i > Len(titles) THEN levels
    ELSE LET j == FirstParentFrom(titles, i, 1)
         IN  InferLevels_KeepLevels(titles, given, i + 1,
                 Append(levels, IF j = 0 THEN given[i] ELSE levels[j] + 1))

infer_bookmark_level_KeepLevels(bms) ==
    LET titles == [i \in 1..Len(bms) |-> bms[i].title]
        given  == [i \in 1..Len(bms) |-> bms[i].level]
        levels == InferLevels_KeepLevels(titles, given, 1, <<>>)
    IN  [i \in 1..Len(bms) |-> Bookmark(bms[i].title, bms[i].page, levels[i])]

\* lines 186-191 without the copy of 'page' (line 188)
infer_bookmark_level_DropPage(bms) ==
    LET titles == [i \in 1..Len(bms) |-> bms[i].title]
        levels == InferLevels(titles, 1, <<>>)
    IN  [i \in 1..Len(bms) |-> Bookmark(bms[i].title, NoneObj, levels[i])]

infer_bookmark_level(bms) ==
    LET titles == [i \in 1..Len(bms) |-> bms[i].title]
        levels == InferLevels(titles, 1, <<>>)
    IN  [i \in 1..Len(bms) |-> Bookmark(bms[i].title, bms[i].page, levels[i])]

-----------------------------------------------------------------------------
(* split_pdf.py: convert_to_page_number *)

DigitChars == <<"0", "1", "2", "3", "4", "5", "6", "7", "8", "9">>

DigitValue(c) == (CHOOSE i \in 1..10 : DigitChars[i] = c) - 1

\* the number a run of digits denotes
RECURSIVE DigitsToInt(_, _)
DigitsToInt(s, acc) ==
    IF s = <<>> THEN acc ELSE DigitsToInt(Tail(s), 10 * acc + DigitValue(s[1]))

\* the page a reference is the indirect_reference of: the first index i with
\* pages[i] == ref (same object id, generation and document), 0 when none
RECURSIVE IdentityMatch(_, _, _)
IdentityMatch(ref, pages, i) ==
    IF i > Len(pages) THEN 0
    ELSE IF pages[i].k = "ref" /\ pages[i].n = ref.n /\ pages[i].g = ref.g THEN i
    ELSE IdentityMatch(ref, pages, i + 1)

\* the idnum scan comparing the generation as well, as == does
IdnumMatch_WithGeneration(ref, pages, i) == IdentityMatch(ref, pages, i)

\* the first index i whose indirect_reference has an idnum equal to ref's
RECURSIVE IdnumMatch(_, _, _)
IdnumMatch(ref, pages, i) ==
    IF i > Len(pages) THEN 0
    ELSE IF pages[i].k = "ref" /\ pages[i].n = ref.n THEN i
    ELSE IdnumMatch(ref, pages, i + 1)

Min(a, b) == IF a <= b THEN a ELSE b

\* lines 85-88, 93: the first run of digits of str(obj), None without one
FromDigits(d) == IF d >= 0 THEN IntObj(d) ELSE NoneObj

\* the position of the first digit of s at or after i, 0 when there is none
RECURSIVE FirstDigitPos(_, _)
FirstDigitPos(s, i) ==
    IF i > Len(s) THEN 0
    ELSE IF IsDigit(s[i]) THEN i
    ELSE FirstDigitPos(s, i + 1)

\* lines 36-43 and 85-88 for a str: int(s) when s is an optionally signed run
\* of digits, else the first run of digits in it, else None (the strings of
\* the model hold no whitespace and no underscore, which int() would accept)
ConvertStr(s) ==
    LET signed == s # <<>> /\ s[1] \in {"-", "+"}
        body   == IF signed THEN Tail(s) ELSE s
        f      == FirstDigitPos(s, 1)
    IN  IF body # <<>> /\ DigitRun(body, 1) = Len(body) + 1
        THEN IntObj((IF signed /\ s[1] = "-" THEN -1 ELSE 1) * DigitsToInt(body, 0))
        ELSE IF f > 0
        THEN IntObj(DigitsToInt(SubSeq(s, f, DigitRun(s, f) - 1), 0))
        ELSE NoneObj

\* lines 67-73: the recursive call on what get_object() returned
ConvertActual(o) ==
    IF o.k = "int" THEN IntObj(o.n) ELSE FromDigits(o.d)

\* lines 46-82 for an IndirectObject, with the pdf_reader split_pdf passes
ConvertRef(ref, pages) ==
    IF IdentityMatch(ref, pages, 1) > 0 THEN IntObj(IdentityMatch(ref, pages, 1))
    ELSE IF IdnumMatch(ref, pages, 1) > 0 THEN IntObj(IdnumMatch(ref, pages, 1))
    ELSE IF ref.o.k # "raise" THEN ConvertActual(ref.o)
    ELSE IntObj(Min(ref.n \div 2, Len(pages)))

\* an object of kind "other" is neither int, str nor IndirectObject; its n is
\* the first run of digits of its str() (-1: none)
convert_to_page_number(page_obj, pages) ==
    CASE page_obj.k = "int" -> IntObj(page_obj.n)
      [] page_obj.k = "str" -> ConvertStr(page_obj.s)
      [] page_obj.k = "ref" -> ConvertRef(page_obj, pages)
      [] page_obj.k = "other" -> FromDigits(page_obj.n)
      [] OTHER -> NoneObj

-----------------------------------------------------------------------------
(* get_pdf_bookmark.py: outline entries, get_bookmark_title,                 *)
(* get_bookmark_page, get_bookmark_children                                  *)

(* An item of the outline is a record [kind, title, p, probe, children].     *)
(* kind tells how the entry encodes its destination:                         *)
(*   "page_attr"  it has an attribute 'page', whose value is p               *)
(*   "slash_page" it has a key '/Page'; p is IntObj(n) when                  *)
(*                pdf_reader.get_destination_page_number returns n, any      *)
(*                other object when that call raises                         *)
(*   "slash_d"    it has a key '/D' whose value is a list with first         *)
(*                element p (p is NoneObj when the value is no list or an    *)
(*                empty one)                                                 *)
(*   "indirect"   it is itself the IndirectObject p; probe tells whether     *)
(*                the test '/Page' in bookmark returns False (TRUE) or       *)
(*                raises TypeError (FALSE)                                   *)
(*   "none"       it has neither the attribute nor the keys                  *)
(*   "list"       the item is a list of items (children), not an entry       *)
(* children is the list get_bookmark_children finds (<<>> when there is no   *)
(* attribute 'children', when it is no list, or when reading it raises).     *)
Entry(kind, t, p, probe, children) ==
    [kind |-> kind, title |-> t, p |-> p, probe |-> probe, children |-> children]

ListItem(children) == Entry("list", <<>>, NoneObj, TRUE, children)

\* line 96
get_bookmark_title(e) == e.title

\* lines 121-128: '/StructParents' of the object behind page_ref
StructParentsPage(ref) ==
    IF ref.o.k = "dict" /\ ref.o.n >= 0 THEN IntObj(ref.o.n + 1) ELSE NoneObj

\* lines 105-128: the '/D' branch; without a result the function reaches
\* line 156, the entry being no IndirectObject
DestinationPage(page_ref, pages) ==
    IF page_ref.k # "ref" THEN NoneObj
    ELSE IF IdentityMatch(page_ref, pages, 1) > 0
    THEN IntObj(IdentityMatch(page_ref, pages, 1))
    ELSE IF IdnumMatch(page_ref, pages, 1) > 0
    THEN IntObj(IdnumMatch(page_ref, pages, 1))
    ELSE StructParentsPage(page_ref)

\* lines 131-154: the entry is an IndirectObject
IndirectPage(ref, pages) ==
    IF IdentityMatch(ref, pages, 1) > 0 THEN IntObj(IdentityMatch(ref, pages, 1))
    ELSE IF IdnumMatch(ref, pages, 1) > 0 THEN IntObj(IdnumMatch(ref, pages, 1))
    ELSE IntObj(Min(ref.n \div 2, Len(pages)))

get_bookmark_page(e, pages) ==
    CASE e.kind = "page_attr" -> e.p
      [] e.kind = "slash_page" -> IF e.p.k = "int" THEN IntObj(e.p.n + 1) ELSE NoneObj
      [] e.kind = "slash_d" -> DestinationPage(e.p, pages)
      [] e.kind = "indirect" ->
            IF e.probe /\ e.p.k = "ref" THEN IndirectPage(e.p, pages) ELSE NoneObj
      [] OTHER -> NoneObj

\* lines 208-221
get_bookmark_children(e) == e.children

-----------------------------------------------------------------------------
(* get_pdf_bookmark.py: flatten_bookmarks, extract_bookmarks *)

\* lines 243-255 with the children walked at the level of their parent
RECURSIVE flatten_bookmarks_SameLevel(_, _, _), FlattenEach_SameLevel(_, _, _)
flatten_bookmarks_SameLevel(b, pages, level) ==
    IF b.kind = "list"
    THEN FlattenEach_SameLevel(b.children, pages, level)
    ELSE <<Bookmark(get_bookmark_title(b), get_bookmark_page(b, pages), level)>>
         \o FlattenEach_SameLevel(get_bookmark_children(b), pages, level)

FlattenEach_SameLevel(items, pages, level) ==
    IF items = <<>> THEN <<>>
    ELSE flatten_bookmarks_SameLevel(items[1], pages, level)
         \o FlattenEach_SameLevel(Tail(items), pages, level)

\* lines 233-236: a list is walked at the level it is met at;
\* lines 239-255: an entry gives its record, then its children at level + 1
RECURSIVE flatten_bookmarks(_, _, _), FlattenEach(_, _, _)
flatten_bookmarks(b, pages, level) ==
    IF b.kind = "list"
    THEN FlattenEach(b.children, pages, level)
    ELSE <<Bookmark(get_bookmark_title(b), get_bookmark_page(b, pages), level)>>
         \o FlattenEach(get_bookmark_children(b), pages, level + 1)

\* the loops of lines 234-235 and 254-255
FlattenEach(items, pages, level) ==
    IF items = <<>> THEN <<>>
    ELSE flatten_bookmarks(items[1], pages, level)
         \o FlattenEach(Tail(items), pages, level)

\* lines 276-277 without the test of the levels
InferWanted_AnyLevels(flat) == Len(flat) > 1

\* lines 276-277
InferWanted(flat) ==
    /\ \A i \in 1..Len(flat) : flat[i].level = 0
    /\ Len(flat) > 1

\* lines 276-279 and 303: what extract_bookmarks returns for the flat list
ExtractResult(flat) ==
    IF InferWanted(flat) THEN infer_bookmark_level(flat) ELSE flat

-----------------------------------------------------------------------------
(* split_pdf.py: get_page_ranges *)

Range(t, s, e) == [title |-> t, start |-> s, end |-> e]

\* the titles of the synthetic ranges (lines 169, 177, 184)
FrontTitle == <<"front part">>

AppendixTitle == <<"appendix part">>

WholeTitle == <<"whole document">>

\* line 109 with <= for ==
AtLevel_UpToLevel(bms, lvl) == LET Keep(b) == b.level <= lvl IN SelectSeq(bms, Keep)

\* line 109
AtLevel(bms, lvl) == LET Keep(b) == b.level = lvl IN SelectSeq(bms, Keep)

\* lines 117-128: the dict of every bookmark of the level gets its page
\* replaced by the converted page; the dicts are those of the argument
ConvertPages(bms, lvl, pages) ==
    [i \in 1..Len(bms) |->
        IF bms[i].level = lvl /\ bms[i].page.k # "none"
        THEN [bms[i] EXCEPT !.page = convert_to_page_number(bms[i].page, pages)]
        ELSE bms[i]]

\* line 131 with >= for >
ValidPage_AllowZero(b) == b.page.k = "int" /\ b.page.n >= 0

\* line 131
ValidPage(b) == b.page.k = "int" /\ b.page.n > 0

\* line 138: list.sort is stable; insertion after every entry whose key is
\* not greater keeps the order of equal keys
\* an unstable sort for line 138: a bookmark goes before those of the same page
RECURSIVE InsertByPage_BeforeEqual(_, _)
InsertByPage_BeforeEqual(sorted, b) ==
    IF sorted = <<>> THEN <<b>>
    ELSE IF sorted[1].page.n < b.page.n
    THEN <<sorted[1]>> \o InsertByPage_BeforeEqual(Tail(sorted), b)
    ELSE <<b>> \o sorted

RECURSIVE InsertByPage(_, _)
InsertByPage(sorted, b) ==
    IF sorted = <<>> THEN <<b>>
    ELSE IF sorted[1].page.n <= b.page.n
    THEN <<sorted[1]>> \o InsertByPage(Tail(sorted), b)
    ELSE <<b>> \o sorted

\* without the sort of line 138: the bookmarks stay in document order
SortByPage_Unsorted(bms, sorted) == bms

RECURSIVE SortByPage(_, _)
SortByPage(bms, sorted) ==
    IF bms = <<>> THEN sorted
    ELSE SortByPage(Tail(bms), InsertByPage(sorted, bms[1]))

\* lines 141-159 with line 147 ending a range on the next bookmark's page
\* (page - 1 for page - 2)
RECURSIVE BookmarkRanges_EndOnNextPage(_, _, _)
BookmarkRanges_EndOnNextPage(sorted, total, i) ==
    IF i > Len(sorted) THEN <<>>
    ELSE LET start_page == sorted[i].page.n - 1
             end_page   == IF i < Len(sorted)
                           THEN sorted[i + 1].page.n - 1
                           ELSE total - 1
         IN  (IF end_page >= start_page
              THEN <<Range(sorted[i].title, start_page, end_page)>>
              ELSE <<>>) \o BookmarkRanges_EndOnNextPage(sorted, total, i + 1)

\* lines 141-159 without the test of line 152: a range whose end lies before
\* its start is emitted as well
RECURSIVE BookmarkRanges_KeepDegenerate(_, _, _)
BookmarkRanges_KeepDegenerate(sorted, total, i) ==
    IF i > Len(sorted) THEN <<>>
    ELSE LET start_page == sorted[i].page.n - 1
             end_page   == IF i < Len(sorted)
                           THEN sorted[i + 1].page.n - 2
                           ELSE total - 1
         IN  <<Range(sorted[i].title, start_page, end_page)>>
             \o BookmarkRanges_KeepDegenerate(sorted, total, i + 1)

\* lines 141-159: the range of every sorted bookmark, kept when end >= start
RECURSIVE BookmarkRanges(_, _, _)
BookmarkRanges(sorted, total, i) ==
    IF i > Len(sorted) THEN <<>>
    ELSE LET start_page == sorted[i].page.n - 1
             end_page   == IF i < Len(sorted)
                           THEN sorted[i + 1].page.n - 2
                           ELSE total - 1
         IN  (IF end_page >= start_page
              THEN <<Range(sorted[i].title, start_page, end_page)>>
              ELSE <<>>) \o BookmarkRanges(sorted, total, i + 1)

\* lines 162-180 without the else of lines 181-187: no range, no result
CompleteCoverage_NothingWhenEmpty(rs, total) ==
    IF rs # <<>>
    THEN LET first_range == rs[1]
             last_range  == rs[Len(rs)]
         IN  (IF first_range.start > 0
              THEN <<Range(FrontTitle, 0, first_range.start - 1)>>
              ELSE <<>>)
             \o rs \o
             (IF last_range.end < total - 1
              THEN <<Range(AppendixTitle, last_range.end + 1, total - 1)>>
              ELSE <<>>)
    ELSE <<>>

\* lines 162-187 without the front part of lines 167-172
CompleteCoverage_WithoutFront(rs, total) ==
    IF rs # <<>>
    THEN LET last_range == rs[Len(rs)]
         IN  rs \o
             (IF last_range.end < total - 1
              THEN <<Range(AppendixTitle, last_range.end + 1, total - 1)>>
              ELSE <<>>)
    ELSE <<Range(WholeTitle, 0, total - 1)>>

\* lines 162-187: first_range and last_range are read before the insertion
CompleteCoverage(rs, total) ==
    IF rs # <<>>
    THEN LET first_range == rs[1]
             last_range  == rs[Len(rs)]
         IN  (IF first_range.start > 0
              THEN <<Range(FrontTitle, 0, first_range.start - 1)>>
              ELSE <<>>)
             \o rs \o
             (IF last_range.end < total - 1
              THEN <<Range(AppendixTitle, last_range.end + 1, total - 1)>>
              ELSE <<>>)
    ELSE <<Range(WholeTitle, 0, total - 1)>>

\* lines 112-114 and 133-135 returning the whole document as one range
\* where the code returns the empty list
get_page_ranges_WholeWhenEmpty(bms, total, lvl, pages) ==
    LET level_bookmarks == AtLevel(ConvertPages(bms, lvl, pages), lvl)
        valid == SelectSeq(level_bookmarks, ValidPage)
    IN  IF valid = <<>> THEN <<Range(WholeTitle, 0, total - 1)>>
        ELSE CompleteCoverage(BookmarkRanges(SortByPage(valid, <<>>), total, 1), total)

get_page_ranges(bms, total, lvl, pages) ==
    LET level_bookmarks == AtLevel(ConvertPages(bms, lvl, pages), lvl)
        valid == SelectSeq(level_bookmarks, ValidPage)
    IN  IF AtLevel(bms, lvl) = <<>> THEN <<>>
        ELSE IF valid = <<>> THEN <<>>
        ELSE CompleteCoverage(BookmarkRanges(SortByPage(valid, <<>>), total, 1), total)

-----------------------------------------------------------------------------
(* split_pdf.py: split_pdf *)

\* lines 248-256 without the test of line 250
RECURSIVE AddedPages_NoBoundCheck(_, _, _, _)
AddedPages_NoBoundCheck(from, to, total, failed) ==
    IF from > to THEN <<>>
    ELSE (IF from \notin failed THEN <<from>> ELSE <<>>)
         \o AddedPages_NoBoundCheck(from + 1, to, total, failed)

\* lines 248-256: the pages of start..end added to the writer, in ascending
\* order: those within the document whose add_page does not raise
RECURSIVE AddedPages(_, _, _, _)
AddedPages(from, to, total, failed) ==
    IF from > to THEN <<>>
    ELSE (IF 0 <= from /\ from < total /\ from \notin failed THEN <<from>> ELSE <<>>)
         \o AddedPages(from + 1, to, total, failed)

\* line 241: the ordinal of the file name, with the title of the range
OutputFile(i, r, added) == [ordinal |-> i, title |-> r.title, pages |-> added]

-----------------------------------------------------------------------------
(* Values of the variables a run does not use *)

ChildIdle == title = <<>> /\ parent_title = <<>> /\ is_child = FALSE

InferIdle == inferred = <<>>

PlanIdle == total_pages = 0 /\ split_level = 0 /\ ranges = <<>>

DocIdle == outline = <<>> /\ flat_bookmarks = <<>> /\ range_i = 0 /\ written = <<>>

ResolveIdle == entry = ListItem(<<>>) /\ page = NoneObj

-----------------------------------------------------------------------------
(* Runs of is_child_bookmark alone *)

Chars == {"1", "2", ".", " "}

T_1_Overview == <<"1", " ", "O", "v", "e", "r", "v", "i", "e", "w">>

T_2_Overview == <<"2", " ", "O", "v", "e", "r", "v", "i", "e", "w">>

T_1_1_Background ==
    <<"1", ".", "1", " ", "B", "a", "c", "k", "g", "r", "o", "u", "n", "d">>

T_1_1_1_X == <<"1", ".", "1", ".", "1", " ", "X">>

ExampleTitles == {T_1_Overview, T_2_Overview, T_1_1_Background, T_1_1_1_X}

Titles == SeqsUpTo(Chars, MaxTitleLen) \cup ExampleTitles

InitIsChild ==
    /\ pc = "is_child_bookmark"
    /\ title \in Titles
    /\ parent_title \in Titles
    /\ is_child = FALSE
    /\ bookmarks = <<>>
    /\ pdf_pages = <<>>
    /\ InferIdle /\ PlanIdle /\ DocIdle /\ ResolveIdle

CallIsChild ==
    /\ pc = "is_child_bookmark"
    /\ is_child' = is_child_bookmark(title, parent_title)
    /\ pc' = "is_child_returned"
    /\ UNCHANGED <<title, parent_title, bookmarks, inferred, total_pages,
                   split_level, pdf_pages, ranges, outline, flat_bookmarks,
                   entry, page, range_i, written>>

NextIsChild == CallIsChild

SpecIsChild == InitIsChild /\ [][NextIsChild]_vars

-----------------------------------------------------------------------------
(* Runs of infer_bookmark_level alone *)

T_A == <<"A">>

T_A_b == <<"A", ".", "b">>

T_A_b_c == <<"A", ".", "b", ".", "c">>

InferTitles ==
    {T_1_Overview, T_1_1_Background, T_1_1_1_X, T_2_Overview, T_A, T_A_b, T_A_b_c}

\* the i-th bookmark of an input is on page i when i is odd, without a page
\* when i is even
InferPage(i) == IF i % 2 = 1 THEN IntObj(i) ELSE NoneObj

\* the input made of the titles and levels of q
InferInput(q) == [i \in 1..Len(q) |-> Bookmark(q[i][1], InferPage(i), q[i][2])]

InitInfer ==
    /\ pc = "infer_bookmark_level"
    /\ \E m \in 0..MaxBookmarks :
           \E q \in [1..m -> InferTitles \X Levels] : bookmarks = InferInput(q)
    /\ inferred = <<>>
    /\ pdf_pages = <<>>
    /\ ChildIdle /\ PlanIdle /\ DocIdle /\ ResolveIdle

\* the levels written into the dicts of the argument instead of into the
\* copies of lines 186-191
CallInfer_InPlace ==
    /\ pc = "infer_bookmark_level"
    /\ bookmarks' = infer_bookmark_level(bookmarks)
    /\ inferred' = infer_bookmark_level(bookmarks)
    /\ pc' = "infer_returned"
    /\ UNCHANGED <<title, parent_title, is_child, total_pages,
                   split_level, pdf_pages, ranges, outline, flat_bookmarks,
                   entry, page, range_i, written>>

CallInfer ==
    /\ pc = "infer_bookmark_level"
    /\ inferred' = infer_bookmark_level(bookmarks)
    /\ pc' = "infer_returned"
    /\ UNCHANGED <<title, parent_title, is_child, bookmarks, total_pages,
                   split_level, pdf_pages, ranges, outline, flat_bookmarks,
                   entry, page, range_i, written>>

NextInfer == CallInfer

SpecInfer == InitInfer /\ [][NextInfer]_vars

-----------------------------------------------------------------------------
(* Runs of get_page_ranges alone, called as split_pdf calls it:             *)
(* total_pages = len(pdf.pages) and pdf_reader = pdf                        *)

\* the object id of the i-th page
PageId(i) == 2 * i + 1

\* a document of n pages
PageTable(n) == [i \in 1..n |-> RefObj(PageId(i), 0, NoDeref)]

\* a reference to the first page held by another wrapper: equal to no entry
\* of the page table, found by its object id
CopiedRef == RefObj(PageId(1), 1, Deref("raise", 0, -1))

PlanPageObjs == {NoneObj, CopiedRef} \cup {IntObj(n) : n \in 0..(MaxPages + 1)}

\* the i-th bookmark of an input is titled B<i>
PlanTitle(i) == <<"B", DigitChars[i + 1]>>

\* the input made of the page objects and levels of q
PlanInput(q) == [i \in 1..Len(q) |-> Bookmark(PlanTitle(i), q[i][1], q[i][2])]

\* the example of the specification: A on page 5, B on page 12, 20 pages
T_B == <<"B">>

ExampleBookmarks == <<Bookmark(T_A, IntObj(5), 0), Bookmark(T_B, IntObj(12), 0)>>

InitPlan ==
    /\ pc = "get_page_ranges"
    /\ \/ /\ total_pages \in 1..MaxPages
          /\ split_level \in Levels
          /\ \E m \in 0..MaxBookmarks :
                 \E q \in [1..m -> PlanPageObjs \X Levels] : bookmarks = PlanInput(q)
       \/ /\ total_pages = 20
          /\ split_level = 0
          /\ bookmarks = ExampleBookmarks
    /\ pdf_pages = PageTable(total_pages)
    /\ ranges = <<>>
    /\ ChildIdle /\ InferIdle /\ DocIdle /\ ResolveIdle

\* the call of line 213; the bookmark dicts of the level are updated in place
CallGetPageRanges ==
    /\ pc = "get_page_ranges"
    /\ ranges' = get_page_ranges(bookmarks, total_pages, split_level, pdf_pages)
    /\ bookmarks' = ConvertPages(bookmarks, split_level, pdf_pages)
    /\ pc' = "get_page_ranges_returned"
    /\ UNCHANGED <<title, parent_title, is_child, inferred, total_pages,
                   split_level, pdf_pages, outline, flat_bookmarks, entry, page,
                   range_i, written>>

NextPlan == CallGetPageRanges

SpecPlan == InitPlan /\ [][NextPlan]_vars

-----------------------------------------------------------------------------
(* Runs of the two resolvers alone: get_bookmark_page on an outline entry,   *)
(* convert_to_page_number on the page object the entry carries               *)

\* the references of the pages of the model's documents: two object ids,
\* each under two generations
TableRefs == {RefObj(PageId(i), g, NoDeref) : i \in 1..2, g \in 0..1}

ResolveTables == SeqsUpTo(TableRefs, MaxPages) \ {<<>>}

Derefs == {Deref("raise", 0, -1), Deref("dict", -1, -1), Deref("dict", 1, 7),
           Deref("int", 2, 2)}

\* the object ids of the references entries carry: those of the two pages
\* and one of no page
EntryIds == {PageId(1), PageId(2), 4 * PageId(1)}

ResolvePageObjs ==
    {NoneObj, IntObj(0), IntObj(1), IntObj(MaxPages + 1), [IntObj(-1) EXCEPT !.k = "other"],
     StrObj(<<"1", "2">>), StrObj(<<"p", "3">>), StrObj(<<"-", "1">>), StrObj(<<"x">>)}
    \cup {RefObj(id, g, d) : id \in EntryIds, g \in 0..1, d \in Derefs}

ResolveEntries ==
    {Entry(kind, T_A, p, probe, <<>>) :
        kind \in {"page_attr", "slash_page", "slash_d", "indirect", "none"},
        p \in ResolvePageObjs, probe \in BOOLEAN}

InitResolve ==
    /\ pc = "resolve"
    /\ entry \in ResolveEntries
    /\ pdf_pages \in ResolveTables
    /\ page = NoneObj
    /\ bookmarks = <<>>
    /\ ChildIdle /\ InferIdle /\ PlanIdle /\ DocIdle

\* the call of line 240
CallGetBookmarkPage ==
    /\ pc = "resolve"
    /\ page' = get_bookmark_page(entry, pdf_pages)
    /\ pc' = "get_bookmark_page_returned"
    /\ UNCHANGED <<title, parent_title, is_child, bookmarks, inferred, total_pages,
                   split_level, pdf_pages, ranges, outline, flat_bookmarks, entry,
                   range_i, written>>

\* the call of split_pdf.py line 121, on a page object that is not None
CallConvertToPageNumber ==
    /\ pc = "resolve"
    /\ entry.p.k # "none"
    /\ page' = convert_to_page_number(entry.p, pdf_pages)
    /\ pc' = "convert_to_page_number_returned"
    /\ UNCHANGED <<title, parent_title, is_child, bookmarks, inferred, total_pages,
                   split_level, pdf_pages, ranges, outline, flat_bookmarks, entry,
                   range_i, written>>

NextResolve == CallGetBookmarkPage \/ CallConvertToPageNumber

SpecResolve == InitResolve /\ [][NextResolve]_vars

-----------------------------------------------------------------------------
(* Runs of extract_bookmarks on the outline of a document *)

\* the forests of exactly n items, every item a label with children
RECURSIVE ForestsOfSize(_, _), ItemsOfSize(_, _)
ForestsOfSize(labels, n) ==
    IF n = 0 THEN {<<>>}
    ELSE UNION {{<<t>> \o f : t \in ItemsOfSize(labels, k),
                              f \in ForestsOfSize(labels, n - k)} : k \in 1..n}

ItemsOfSize(labels, n) ==
    {[l EXCEPT !.children = c] : l \in labels, c \in ForestsOfSize(labels, n - 1)}

\* entries whose page is found directly, found by object id, not found, and
\* lost to the TypeError of the '/Page' test; and the list
ExtractLabels ==
    {Entry("page_attr", T_1_Overview, IntObj(1), TRUE, <<>>),
     Entry("slash_d", T_1_1_Background, CopiedRef, TRUE, <<>>),
     Entry("page_attr", T_1_1_1_X, IntObj(2), TRUE, <<>>),
     Entry("none", T_A, NoneObj, TRUE, <<>>),
     Entry("indirect", T_B, CopiedRef, FALSE, <<>>),
     ListItem(<<>>)}

Outlines == UNION {ForestsOfSize(ExtractLabels, n) : n \in 0..MaxNodes}

InitExtract ==
    /\ pc = "extract_bookmarks"
    /\ outline \in Outlines
    /\ pdf_pages = PageTable(MaxPages)
    /\ flat_bookmarks = <<>>
    /\ bookmarks = <<>>
    /\ range_i = 0
    /\ written = <<>>
    /\ ChildIdle /\ InferIdle /\ PlanIdle /\ ResolveIdle

\* line 269
ExtractFlatten ==
    /\ pc = "extract_bookmarks"
    /\ flat_bookmarks' = flatten_bookmarks(ListItem(outline), pdf_pages, 0)
    /\ pc' = "extract_infer"
    /\ UNCHANGED <<title, parent_title, is_child, bookmarks, inferred, total_pages,
                   split_level, pdf_pages, ranges, outline, entry, page,
                   range_i, written>>

\* lines 276-279 and the return of line 303 into line 210
ExtractInfer ==
    /\ pc = "extract_infer"
    /\ flat_bookmarks' = ExtractResult(flat_bookmarks)
    /\ bookmarks' = ExtractResult(flat_bookmarks)
    /\ pc' = "get_page_ranges"
    /\ UNCHANGED <<title, parent_title, is_child, inferred, total_pages,
                   split_level, pdf_pages, ranges, outline, entry, page,
                   range_i, written>>

NextExtract == ExtractFlatten \/ ExtractInfer

SpecExtract == InitExtract /\ [][NextExtract]_vars

-----------------------------------------------------------------------------
(* Runs of split_pdf, from line 208 on: pdf is open, total_pages is set (a  *)
(* document of one page or of MaxPages pages)                               *)

\* entries on page 1, on page 2, on a page past the document and without a
\* page, all under one title
SplitLabels ==
    {Entry("page_attr", T_A, IntObj(n), TRUE, <<>>) : n \in {1, 2, MaxPages + 2}}
    \cup {Entry("none", T_A, NoneObj, TRUE, <<>>)}

SplitOutlines == UNION {ForestsOfSize(SplitLabels, n) : n \in 0..MaxNodes}

\* an outline of at most MaxNodes entries has no bookmark of level MaxNodes
SplitLevels == {0, 1, MaxNodes}

InitSplit ==
    /\ pc = "extract_bookmarks"
    /\ outline \in SplitOutlines
    /\ total_pages \in {1, MaxPages}
    /\ pdf_pages = PageTable(total_pages)
    /\ split_level \in SplitLevels
    /\ flat_bookmarks = <<>>
    /\ bookmarks = <<>>
    /\ ranges = <<>>
    /\ range_i = 0
    /\ written = <<>>
    /\ ChildIdle /\ InferIdle /\ ResolveIdle

\* lines 215-217: without ranges split_pdf returns; else the loop starts
SplitCheckRanges ==
    /\ pc = "get_page_ranges_returned"
    /\ IF ranges = <<>>
       THEN pc' = "split_pdf_returned" /\ range_i' = range_i
       ELSE pc' = "split_loop" /\ range_i' = 1
    /\ UNCHANGED <<title, parent_title, is_child, bookmarks, inferred, total_pages,
                   split_level, pdf_pages, ranges, outline, flat_bookmarks, entry,
                   page, written>>

\* lines 234-270, one iteration: failed are the pages whose add_page raises,
\* write_ok tells whether the file can be written
SplitRange ==
    /\ pc = "split_loop"
    /\ range_i <= Len(ranges)
    /\ \E failed \in SUBSET (0..(total_pages - 1)), write_ok \in BOOLEAN :
          LET r     == ranges[range_i]
              added == AddedPages(r.start, r.end, total_pages, failed)
          IN  written' = IF added # <<>> /\ write_ok
                         THEN Append(written, OutputFile(range_i, r, added))
                         ELSE written
    /\ range_i' = range_i + 1
    /\ UNCHANGED <<pc, title, parent_title, is_child, bookmarks, inferred,
                   total_pages, split_level, pdf_pages, ranges, outline,
                   flat_bookmarks, entry, page>>

\* line 272: the loop is over
SplitReturn ==
    /\ pc = "split_loop"
    /\ range_i > Len(ranges)
    /\ pc' = "split_pdf_returned"
    /\ UNCHANGED <<title, parent_title, is_child, bookmarks, inferred, total_pages,
                   split_level, pdf_pages, ranges, outline, flat_bookmarks, entry,
                   page, range_i, written>>

NextSplit ==
    \/ ExtractFlatten
    \/ ExtractInfer
    \/ CallGetPageRanges
    \/ SplitCheckRanges
    \/ SplitRange
    \/ SplitReturn

SpecSplit == InitSplit /\ [][NextSplit]_vars

-----------------------------------------------------------------------------
(* C4: is_child_bookmark accepts by the numeric-prefix rule only a child     *)
(* whose dotted prefix extends the parent's prefix by exactly one segment:  *)
(* ("1.1 Background", "1 Overview") is a child, ("2 Overview",              *)
(* "1 Overview") is not, ("1.1.1 X", "1 Overview") is not.                  *)
C4_OneMoreSegment ==
    pc = "is_child_returned" =>
        /\ (title = T_1_1_Background /\ parent_title = T_1_Overview) => is_child
        /\ (title = T_2_Overview /\ parent_title = T_1_Overview) => ~is_child
        /\ (title = T_1_1_1_X /\ parent_title = T_1_Overview) => ~is_child
        /\ NumericPrefixRule(title, parent_title) =>
               CountDots(NumPrefix(title)) = CountDots(NumPrefix(parent_title)) + 1

\* the first two examples alone, which the code meets
C4_FirstTwoExamples ==
    pc = "is_child_returned" =>
        /\ (title = T_1_1_Background /\ parent_title = T_1_Overview) => is_child
        /\ (title = T_2_Overview /\ parent_title = T_1_Overview) => ~is_child

-----------------------------------------------------------------------------
(* Claims about get_page_ranges *)

PlanReturned == pc = "get_page_ranges_returned"

\* the page set start..end of a range
PageSet(r) == r.start..r.end

(* C1: whenever get_page_ranges returns a non-empty list, the page sets of   *)
(* its ranges are pairwise disjoint and their union is exactly               *)
(* {0, ..., total_pages-1}.                                                  *)
C1_ExactCover ==
    (PlanReturned /\ ranges # <<>>) =>
        /\ \A i, j \in 1..Len(ranges) :
               i # j => PageSet(ranges[i]) \cap PageSet(ranges[j]) = {}
        /\ UNION {PageSet(ranges[i]) : i \in 1..Len(ranges)} = 0..(total_pages - 1)

(* C2: for the bookmarks [A on page 5, B on page 12] (both level 0),         *)
(* total_pages = 20 and target level 0, the ranges are, in this order,       *)
(* the front part 0..4, A 4..11, B 11..19.                                   *)
C2_ExampleAsClaimed ==
    (PlanReturned /\ total_pages = 20 /\ bookmarks = ExampleBookmarks) =>
        ranges = <<Range(FrontTitle, 0, 4), Range(T_A, 4, 11), Range(T_B, 11, 19)>>

(* C2 as amended: for that input the ranges are, in this order, the front    *)
(* part 0..3, A 4..10, B 11..19 (0-based, inclusive).                        *)
C2_ExampleRanges ==
    (PlanReturned /\ total_pages = 20 /\ bookmarks = ExampleBookmarks) =>
        ranges = <<Range(FrontTitle, 0, 3), Range(T_A, 4, 10), Range(T_B, 11, 19)>>

C2_Witness ==
    /\ PlanReturned
    /\ total_pages = 20
    /\ bookmarks = ExampleBookmarks
    /\ Len(ranges) = 3

\* the bookmarks of the level, selected apart from the planner's own filter
OnlyLevel(bms, lvl) == LET Same(b) == b.level = lvl IN SelectSeq(bms, Same)

(* C8: get_page_ranges uses only the bookmarks whose level equals the target *)
(* level: without such a bookmark it returns the empty list, and its result  *)
(* is the one it returns for the bookmarks of that level alone, whatever     *)
(* bookmarks of other levels the input holds.                                *)
C8_OnlyTargetLevel ==
    [][CallGetPageRanges =>
          /\ OnlyLevel(bookmarks, split_level) = <<>> => ranges' = <<>>
          /\ ranges' = get_page_ranges(OnlyLevel(bookmarks, split_level),
                                       total_pages, split_level, pdf_pages)]_vars

\* a bookmark of another level, with a valid page, lies among the planned ones
C8_Witness ==
    /\ PlanReturned
    /\ Len(ranges) >= 2
    /\ \E i \in 1..Len(bookmarks) :
           bookmarks[i].level # split_level /\ ValidPage(bookmarks[i])

(* C9: every range get_page_ranges returns satisfies                         *)
(* 0 <= start <= end <= total_pages - 1.                                     *)
C9_RangeWithinDocument ==
    PlanReturned =>
        \A i \in 1..Len(ranges) :
            /\ 0 <= ranges[i].start
            /\ ranges[i].start <= ranges[i].end
            /\ ranges[i].end <= total_pages - 1

-----------------------------------------------------------------------------
(* Claims about infer_bookmark_level *)

InferReturned == pc = "infer_returned"

SomeLevelAboveZero(bms) == \E i \in 1..Len(bms) : bms[i].level > 0

(* C5: when some input bookmark already has level > 0, infer_bookmark_level  *)
(* returns the input with every title, page and level unchanged.             *)
C5_NoOpAsClaimed ==
    (InferReturned /\ SomeLevelAboveZero(bookmarks)) => inferred = bookmarks

(* C5 as amended: when some input bookmark already has level > 0,            *)
(* infer_bookmark_level returns a list of the same length with every title   *)
(* and page unchanged; the levels are derived anew from the titles, the      *)
(* first entry getting level 0 whatever its input level.                     *)
C5_TitlesAndPagesKept ==
    (InferReturned /\ SomeLevelAboveZero(bookmarks)) =>
        /\ Len(inferred) = Len(bookmarks)
        /\ \A i \in 1..Len(bookmarks) :
               /\ inferred[i].title = bookmarks[i].title
               /\ inferred[i].page = bookmarks[i].page
        /\ inferred[1].level = 0

\* an input with a level above 0 and a page, whose levels come back changed
C5_Witness ==
    /\ InferReturned
    /\ SomeLevelAboveZero(bookmarks)
    /\ \E i \in 1..Len(bookmarks) : bookmarks[i].page # NoneObj
    /\ \E i \in 1..Len(bookmarks) : inferred[i].level # bookmarks[i].level

-----------------------------------------------------------------------------
(* Claims about the resolvers *)

\* the reference ref equals no entry of the page table
NoIdentityMatch(ref, pages) ==
    \A i \in 1..Len(pages) : ~(pages[i].n = ref.n /\ pages[i].g = ref.g)

\* the 0-based indices of the pages whose object id is that of ref
SameIdIndices(ref, pages) == {k \in 0..(Len(pages) - 1) : pages[k + 1].n = ref.n}

Lowest(S) == CHOOSE k \in S : \A j \in S : k <= j

\* the case of C6: a page reference equal to no entry of the page table
\* whose object id is the object id of some page
IdOnlyCase ==
    /\ entry.p.k = "ref"
    /\ NoIdentityMatch(entry.p, pdf_pages)
    /\ SameIdIndices(entry.p, pdf_pages) # {}

(* C6: when the page reference of a destination is identity-equal to no      *)
(* entry of the page table but its object id is the object id of the page    *)
(* at index k, get_bookmark_page (on the '/D' destination) and               *)
(* convert_to_page_number return the page number k + 1, k the lowest such    *)
(* index.                                                                    *)
C6_IdnumFallback ==
    /\ (pc = "get_bookmark_page_returned" /\ entry.kind = "slash_d" /\ IdOnlyCase) =>
           page = IntObj(Lowest(SameIdIndices(entry.p, pdf_pages)) + 1)
    /\ (pc = "convert_to_page_number_returned" /\ IdOnlyCase) =>
           page = IntObj(Lowest(SameIdIndices(entry.p, pdf_pages)) + 1)

\* two pages share the object id, the lower one is not the first page
C6_Witness ==
    /\ pc = "get_bookmark_page_returned"
    /\ entry.kind = "slash_d"
    /\ IdOnlyCase
    /\ Cardinality(SameIdIndices(entry.p, pdf_pages)) = 2
    /\ page = IntObj(2)

-----------------------------------------------------------------------------
(* Claims about flatten_bookmarks and extract_bookmarks *)

\* the entries of an outline, each with its path (the positions leading to
\* it) and its nesting depth: a root has depth 0, a child of an entry of
\* depth d has depth d + 1, a list adds no depth
RECURSIVE NodesUnder(_, _, _)
NodesUnder(items, path, depth) ==
    UNION {LET it == items[k]
               pk == Append(path, k)
           IN  IF it.kind = "list"
               THEN NodesUnder(it.children, pk, depth)
               ELSE {[path |-> pk, entry |-> it, depth |-> depth]}
                    \cup NodesUnder(it.children, pk, depth + 1)
           : k \in 1..Len(items)}

\* a comes before b in pre-order: a is a proper prefix of b (an ancestor), or
\* a turns to an earlier position where the two paths part
PathBefore(a, b) ==
    \E k \in 1..Len(b) :
        /\ k <= Len(a) + 1
        /\ SubSeq(a, 1, k - 1) = SubSeq(b, 1, k - 1)
        /\ (k = Len(a) + 1 \/ a[k] < b[k])

Flattened == pc = "extract_infer"

(* C3: flatten_bookmarks returns exactly one record per entry of the outline *)
(* tree, in pre-order, the level of each record being the nesting depth of   *)
(* its entry, whatever the page resolution gives (the record carries the     *)
(* resolver's answer, None included).                                        *)
C3_PreOrderWithDepth ==
    Flattened =>
        LET nodes == NodesUnder(outline, <<>>, 0)
        IN  /\ Len(flat_bookmarks) = Cardinality(nodes)
            /\ \A nd \in nodes :
                   LET pos == 1 + Cardinality({m \in nodes : PathBefore(m.path, nd.path)})
                   IN  /\ flat_bookmarks[pos].title = nd.entry.title
                       /\ flat_bookmarks[pos].level = nd.depth
                       /\ flat_bookmarks[pos].page = get_bookmark_page(nd.entry, pdf_pages)

\* a chain of three entries, one resolved and one not
C3_Witness ==
    /\ Flattened
    /\ Len(flat_bookmarks) = 3
    /\ flat_bookmarks[3].level = 2
    /\ \E i \in 1..3 : flat_bookmarks[i].page = NoneObj
    /\ \E i \in 1..3 : flat_bookmarks[i].page = IntObj(1)

AllLevelZero(flat) == \A i \in 1..Len(flat) : flat[i].level = 0

(* C10: extract_bookmarks returns the flattened list with the levels         *)
(* infer_bookmark_level derives when every flattened bookmark has level 0    *)
(* and there is more than one, and the flattened list as it is in every      *)
(* other case.                                                               *)
C10_InferOnlyWhenFlat ==
    [][ExtractInfer =>
          /\ (AllLevelZero(flat_bookmarks) /\ Len(flat_bookmarks) > 1) =>
                 bookmarks' = infer_bookmark_level(flat_bookmarks)
          /\ ~(AllLevelZero(flat_bookmarks) /\ Len(flat_bookmarks) > 1) =>
                 bookmarks' = flat_bookmarks]_vars

\* a flat outline of several entries came back with a level above 0
C10_Witness ==
    /\ pc = "get_page_ranges"
    /\ Len(bookmarks) > 1
    /\ flatten_bookmarks(ListItem(outline), pdf_pages, 0) # bookmarks
    /\ \E i \in 1..Len(bookmarks) : bookmarks[i].level > 0

-----------------------------------------------------------------------------
(* Claims about split_pdf *)

SplitReturned == pc = "split_pdf_returned"

NoBookmarkAtLevel == \A i \in 1..Len(bookmarks) : bookmarks[i].level # split_level

(* C7: when no bookmark has the requested level, the plan is empty and       *)
(* split_pdf turns it into a single whole-document range: it writes one      *)
(* output holding the pages 0..total_pages-1.                                *)
C7_WholeDocumentAsClaimed ==
    (SplitReturned /\ NoBookmarkAtLevel) =>
        /\ Len(written) = 1
        /\ written[1].pages = [k \in 1..total_pages |-> k - 1]

(* C7 as amended: when no bookmark has the requested level, the plan is      *)
(* empty and split_pdf returns without entering its loop and without         *)
(* writing any output.                                                       *)
C7_EmptyPlanNoOutput ==
    (SplitReturned /\ NoBookmarkAtLevel) =>
        /\ ranges = <<>>
        /\ range_i = 0
        /\ written = <<>>

\* an outline of two levels, split at a level it does not have
C7_Witness ==
    /\ SplitReturned
    /\ NoBookmarkAtLevel
    /\ \E i, j \in 1..Len(bookmarks) :
           /\ bookmarks[i].level = 0 /\ ValidPage(bookmarks[i])
           /\ bookmarks[j].level = 1 /\ ValidPage(bookmarks[j])
    /\ written = <<>>

-----------------------------------------------------------------------------
(* Claims about the steps of get_page_ranges *)

\* the bookmarks the planner retains, in the order of its sort: those of the
\* level with a valid page (read after the call, when every page of the
\* level has been converted)
Retained == SortByPage(SelectSeq(OnlyLevel(bookmarks, split_level), ValidPage), <<>>)

\* the range the i-th retained bookmark stands for
RetainedRange(i) ==
    Range(Retained[i].title,
          Retained[i].page.n - 1,
          IF i < Len(Retained) THEN Retained[i + 1].page.n - 2 ELSE total_pages - 1)

Degenerate(r) == r.end < r.start

\* the ranges of the result that carry the title of a bookmark
IsBookmarkRange(r) == r.title \notin {FrontTitle, AppendixTitle, WholeTitle}

BookmarkRangesOf(rs) == SelectSeq(rs, IsBookmarkRange)

\* the indices of the retained bookmarks whose range is not degenerate
EmittedIndices == {i \in 1..Len(Retained) : ~Degenerate(RetainedRange(i))}

(* C11: for the i-th retained bookmark (target level, valid page, sorted by  *)
(* page) get_page_ranges computes start = page_i - 1 and end =               *)
(* page_(i+1) - 2 when a retained bookmark follows, else total_pages - 1;    *)
(* the range is in the result under the bookmark's title exactly when        *)
(* end >= start, and the ranges of the other bookmarks keep these bounds     *)
(* whether or not a degenerate range was discarded.                          *)
C11_RangePerRetainedBookmark ==
    PlanReturned =>
        LET rs == BookmarkRangesOf(ranges)
        IN  /\ Len(rs) = Cardinality(EmittedIndices)
            /\ \A i \in EmittedIndices :
                   rs[Cardinality({j \in EmittedIndices : j <= i})] = RetainedRange(i)

\* of three retained bookmarks the middle one is discarded as degenerate,
\* the other two are emitted
C11_Witness ==
    /\ PlanReturned
    /\ Len(Retained) = 3
    /\ EmittedIndices = {1, 3}
    /\ Len(BookmarkRangesOf(ranges)) = 2

PositiveInt(p) == p.k = "int" /\ p.n >= 1

\* a bookmark of the target level the planner has no valid page for
Dropped(b) == b.level = split_level /\ ~PositiveInt(b.page)

WithoutDropped(bms) == LET Kept(b) == ~Dropped(b) IN SelectSeq(bms, Kept)

NoRangeTitled(rs, t) == \A k \in 1..Len(rs) : rs[k].title # t

(* C12: a bookmark of the target level whose page (as handed to              *)
(* get_page_ranges) is None or not a positive integer never produces a       *)
(* range and never influences the bounds of another range; when every        *)
(* bookmark of the target level is such a bookmark, the result is empty.     *)
C12_AsClaimed ==
    [][CallGetPageRanges =>
          /\ \A i \in 1..Len(bookmarks) :
                 Dropped(bookmarks[i]) => NoRangeTitled(ranges', bookmarks[i].title)
          /\ ranges' = get_page_ranges(WithoutDropped(bookmarks), total_pages,
                                       split_level, pdf_pages)
          /\ (\A i \in 1..Len(bookmarks) :
                  bookmarks[i].level = split_level => Dropped(bookmarks[i]))
             => ranges' = <<>>]_vars

(* C12 as amended: get_page_ranges first converts the page of every bookmark *)
(* of the target level with convert_to_page_number (a reference or a string  *)
(* may become a positive integer); a bookmark whose converted page is None   *)
(* or not a positive integer never produces a range and never influences the *)
(* bounds of another range; when every bookmark of the target level is such  *)
(* a bookmark, the result is empty.                                          *)
C12_InvalidPagesDropped ==
    [][CallGetPageRanges =>
          /\ \A i \in 1..Len(bookmarks') :
                 Dropped(bookmarks'[i]) => NoRangeTitled(ranges', bookmarks'[i].title)
          /\ ranges' = get_page_ranges(WithoutDropped(bookmarks'), total_pages,
                                       split_level, pdf_pages)
          /\ (\A i \in 1..Len(bookmarks') :
                  bookmarks'[i].level = split_level => Dropped(bookmarks'[i]))
             => ranges' = <<>>]_vars

\* a bookmark without a page and one on page 0 are dropped next to a
\* bookmark that gives a range
C12_Witness ==
    /\ PlanReturned
    /\ \E i, j \in 1..Len(bookmarks) :
           /\ bookmarks[i].level = split_level /\ bookmarks[i].page = NoneObj
           /\ bookmarks[j].level = split_level /\ bookmarks[j].page = IntObj(0)
           /\ NoRangeTitled(ranges, bookmarks[i].title)
           /\ NoRangeTitled(ranges, bookmarks[j].title)
    /\ Len(BookmarkRangesOf(ranges)) = 1

SomeBookmarkAtLevel == OnlyLevel(bookmarks, split_level) # <<>>

WholeDocument == <<Range(WholeTitle, 0, total_pages - 1)>>

(* C13: whenever dropping the bookmarks without a valid page, sorting and    *)
(* discarding the degenerate ranges leave zero ranges, get_page_ranges       *)
(* returns exactly one synthetic range with start 0 and end total_pages - 1. *)
C13_AsClaimed ==
    (PlanReturned /\ SomeBookmarkAtLevel /\ EmittedIndices = {}) =>
        ranges = WholeDocument

(* C13 as amended: when at least one bookmark of the target level has a      *)
(* valid page and every computed range is discarded as degenerate,           *)
(* get_page_ranges returns exactly one synthetic range with start 0 and end  *)
(* total_pages - 1; when no bookmark of the target level has a valid page,   *)
(* it returns the empty list.                                                *)
C13_WholeDocumentWhenAllDegenerate ==
    PlanReturned =>
        /\ (Retained # <<>> /\ EmittedIndices = {}) => ranges = WholeDocument
        /\ (SomeBookmarkAtLevel /\ Retained = <<>>) => ranges = <<>>

\* two retained bookmarks past the last page: both ranges are degenerate
C13_Witness ==
    /\ PlanReturned
    /\ Len(Retained) = 2
    /\ EmittedIndices = {}
    /\ ranges = WholeDocument

-----------------------------------------------------------------------------
(* Claims about the levels infer_bookmark_level assigns *)

\* the earlier entries whose title makes the title of entry i a child
EarlierParents(i) ==
    {j \in 1..(i - 1) : is_child_bookmark(bookmarks[i].title, bookmarks[j].title)}

(* C14: infer_bookmark_level assigns the levels in document order by first   *)
(* match: entry i gets level_j + 1 for the smallest j < i with               *)
(* is_child_bookmark(title_i, title_j), level_j being the level inferred     *)
(* for j, and level 0 when there is no such j.                               *)
C14_FirstMatchLevels ==
    InferReturned =>
        \A i \in 1..Len(inferred) :
            inferred[i].level =
                IF EarlierParents(i) = {} THEN 0
                ELSE inferred[Lowest(EarlierParents(i))].level + 1

\* "1.1.1 X" follows "1 Overview" and "1.1 Background", both of which it is
\* a child of: it gets the level of the first one plus 1
C14_Witness ==
    /\ InferReturned
    /\ Len(inferred) = 3
    /\ EarlierParents(3) = {1, 2}
    /\ inferred[1].level = 0
    /\ inferred[2].level = 1
    /\ inferred[3].level = 1

-----------------------------------------------------------------------------
(* Claims about what the functions do to their arguments *)

(* C15: get_page_ranges is a pure computation over its inputs: after a call  *)
(* every bookmark of the input sequence has the title, the page and the      *)
(* level it had before the call.                                             *)
C15_InputUnchanged ==
    [][CallGetPageRanges =>
          /\ Len(bookmarks') = Len(bookmarks)
          /\ \A i \in 1..Len(bookmarks) :
                 /\ bookmarks'[i].title = bookmarks[i].title
                 /\ bookmarks'[i].page = bookmarks[i].page
                 /\ bookmarks'[i].level = bookmarks[i].level]_vars

(* C16: infer_bookmark_level returns a new sequence of the length of its     *)
(* input whose i-th entry has the title and the page of the i-th input       *)
(* entry, and it leaves every input bookmark, its level included, as it was. *)
C16_NewSequenceInputKept ==
    [][CallInfer =>
          /\ bookmarks' = bookmarks
          /\ Len(inferred') = Len(bookmarks)
          /\ \A i \in 1..Len(bookmarks) :
                 /\ inferred'[i].title = bookmarks[i].title
                 /\ inferred'[i].page = bookmarks[i].page]_vars

\* an input of level 0 throughout comes back with a level above 0 in the
\* returned list and with its own levels still 0
C16_Witness ==
    /\ InferReturned
    /\ Len(bookmarks) = 3
    /\ AllLevelZero(bookmarks)
    /\ SomeLevelAboveZero(inferred)
    /\ bookmarks[1].page # NoneObj

-----------------------------------------------------------------------------
(* Claims about the steps of the resolver *)

BookmarkPageReturned == pc = "get_bookmark_page_returned"

(* C17: the page get_bookmark_page gives to a bookmark is None or an integer *)
(* in 1..total_pages, for every encoding of the destination and every step   *)
(* that can produce the page.                                                *)
C17_PageWithinDocument ==
    BookmarkPageReturned =>
        \/ page = NoneObj
        \/ (page.k = "int" /\ 1 <= page.n /\ page.n <= Len(pdf_pages))

\* the pages the steps open to an entry give when each is tried on its own:
\* the direct page, the identity match, the object-id match, the
\* '/StructParents' attribute, the estimate from the object id
MatchAnswers(ref, pages) ==
    {IntObj(k) : k \in {IdentityMatch(ref, pages, 1), IdnumMatch(ref, pages, 1)} \ {0}}

StepAnswers(e, pages) ==
    (CASE e.kind = "page_attr" -> {e.p}
       [] e.kind = "slash_page" /\ e.p.k = "int" -> {IntObj(e.p.n + 1)}
       [] e.kind = "slash_d" /\ e.p.k = "ref" ->
             MatchAnswers(e.p, pages) \cup {StructParentsPage(e.p)}
       [] e.kind = "indirect" /\ e.p.k = "ref" ->
             MatchAnswers(e.p, pages) \cup {IntObj(Min(e.p.n \div 2, Len(pages)))}
       [] OTHER -> {}) \ {NoneObj}

(* C18: in get_bookmark_page an exception raised inside one step only makes  *)
(* that step yield no answer, the later steps are still tried: the page is   *)
(* None only when no step at all produces a page.                            *)
C18_NoneOnlyWithoutAnswer ==
    (BookmarkPageReturned /\ page = NoneObj) => StepAnswers(entry, pdf_pages) = {}

\* the reference is the reference of no page, by identity or by object id
Unmatched(ref, pages) ==
    IdentityMatch(ref, pages, 1) = 0 /\ IdnumMatch(ref, pages, 1) = 0

Estimate(ref, pages) == IntObj(Min(ref.n \div 2, Len(pages)))

(* C19: when a destination is an indirect reference matched to no page by    *)
(* identity, by object id or through dereferencing, and it carries an        *)
(* object id n, the resolver (get_bookmark_page on the reference of a '/D'   *)
(* destination or on an entry that is itself the reference, and              *)
(* convert_to_page_number on the reference) returns min(n / 2, total_pages). *)
C19_EstimateWhenUnmatched ==
    /\ (/\ BookmarkPageReturned
        /\ entry.kind \in {"slash_d", "indirect"}
        /\ entry.p.k = "ref"
        /\ Unmatched(entry.p, pdf_pages)
        /\ StructParentsPage(entry.p) = NoneObj)
       => page = Estimate(entry.p, pdf_pages)
    /\ (/\ pc = "convert_to_page_number_returned"
        /\ entry.p.k = "ref"
        /\ Unmatched(entry.p, pdf_pages)
        /\ (entry.p.o.k = "raise" \/ ConvertActual(entry.p.o) = NoneObj))
       => page = Estimate(entry.p, pdf_pages)

-----------------------------------------------------------------------------
(* Claims about the loop of split_pdf *)

\* the page indices of range i that lie in the document
ValidIndices(i) == PageSet(ranges[i]) \cap (0..(total_pages - 1))

HasFile(i) == \E k \in 1..Len(written) : written[k].ordinal = i

(* C20: in split_pdf a range that contributes no valid page (every index     *)
(* outside 0..total_pages-1, or every page copy failing) is skipped without  *)
(* a file being written, and neither that skip nor a failed page copy nor a  *)
(* failed write of one range keeps a later range from being processed:       *)
(* every file holds at least one page, all of them valid indices of its      *)
(* range, and the loop ends only after the last range.                       *)
C20_SkipAndContinue ==
    /\ \A k \in 1..Len(written) :
           /\ written[k].pages # <<>>
           /\ \A n \in 1..Len(written[k].pages) :
                  written[k].pages[n] \in ValidIndices(written[k].ordinal)
    /\ \A i \in 1..Len(ranges) : ValidIndices(i) = {} => ~HasFile(i)
    /\ pc = "split_loop" => range_i \in 1..(Len(ranges) + 1)
    /\ (SplitReturned /\ ranges # <<>>) => range_i = Len(ranges) + 1

\* the first of two ranges gave no file (its copies or its write failed),
\* the second one, processed after it, did
C20_Witness ==
    /\ SplitReturned
    /\ Len(ranges) = 2
    /\ ValidIndices(1) # {}
    /\ ~HasFile(1)
    /\ HasFile(2)

-----------------------------------------------------------------------------
(* Claims about the plan as a whole *)

(* C21: for total_pages >= 1 and any bookmarks (pages past the document,     *)
(* duplicate and out-of-order pages included) a non-empty result of          *)
(* get_page_ranges tiles an initial segment of the page indices: the first   *)
(* range starts at 0, every later range starts at the end of the one before  *)
(* it plus 1, and the last range ends at or after total_pages - 1, so that   *)
(* the trailing range of lines 175-180 is never added.                       *)
C21_TilesInitialSegment ==
    (PlanReturned /\ ranges # <<>>) =>
        /\ ranges[1].start = 0
        /\ \A i \in 2..Len(ranges) : ranges[i].start = ranges[i - 1].end + 1
        /\ ranges[Len(ranges)].end >= total_pages - 1
        /\ NoRangeTitled(ranges, AppendixTitle)

\* three bookmarks given in descending order of page, the last page past the
\* document: front part and two ranges, the last one ending past the document
C21_Witness ==
    /\ PlanReturned
    /\ Len(bookmarks) = 3
    /\ \A i \in 1..3 : bookmarks[i].level = split_level /\ PositiveInt(bookmarks[i].page)
    /\ bookmarks[1].page.n > total_pages
    /\ bookmarks[1].page.n > bookmarks[2].page.n
    /\ bookmarks[2].page.n > bookmarks[3].page.n
    /\ Len(ranges) = 3
    /\ ranges[3].end > total_pages - 1

\* bookmarks i and j are of the target level and resolve to the same page
SamePage(i, j) ==
    /\ bookmarks[i].level = split_level /\ PositiveInt(bookmarks[i].page)
    /\ bookmarks[j].level = split_level /\ PositiveInt(bookmarks[j].page)
    /\ bookmarks[i].page.n = bookmarks[j].page.n

RangesTitled(t) == {k \in 1..Len(ranges) : ranges[k].title = t}

(* C23: when several bookmarks of the target level resolve to the same page, *)
(* get_page_ranges emits a range for at most one of them, the latest in      *)
(* document order; every earlier one is discarded as degenerate.             *)
C23_LatestOfSamePage ==
    PlanReturned =>
        \A i, j \in 1..Len(bookmarks) :
            (i < j /\ SamePage(i, j)) =>
                /\ RangesTitled(bookmarks[i].title) = {}
                /\ Cardinality(RangesTitled(bookmarks[j].title)) <= 1

\* three bookmarks on one page: the third alone has a range
C23_Witness ==
    /\ PlanReturned
    /\ Len(bookmarks) = 3
    /\ SamePage(1, 2)
    /\ SamePage(2, 3)
    /\ RangesTitled(bookmarks[1].title) = {}
    /\ RangesTitled(bookmarks[2].title) = {}
    /\ Cardinality(RangesTitled(bookmarks[3].title)) = 1

-----------------------------------------------------------------------------
(* Claims about the output of split_pdf *)

\* the source pages an output document holds
PagesOf(f) == {f.pages[n] : n \in 1..Len(f.pages)}

\* no page copy and no write raised: every range with a valid index has its
\* file, holding all the valid indices of the range (a raising copy leaves a
\* page out of the file, a raising write leaves the file out)
NothingRaised ==
    \A i \in 1..Len(ranges) :
        IF ValidIndices(i) = {} THEN ~HasFile(i)
        ELSE \E k \in 1..Len(written) :
                 written[k].ordinal = i /\ PagesOf(written[k]) = ValidIndices(i)

(* C22: in split_pdf, when the plan is non-empty and no page copy or file    *)
(* write raises, every source page index in 0..total_pages-1 is added to     *)
(* exactly one output document, and inside each output document the pages    *)
(* appear in ascending source order.                                         *)
C22_EveryPageInOneOutput ==
    (SplitReturned /\ ranges # <<>> /\ NothingRaised) =>
        /\ \A n \in 0..(total_pages - 1) :
               Cardinality({k \in 1..Len(written) : n \in PagesOf(written[k])}) = 1
        /\ \A k \in 1..Len(written) :
               \A a, b \in 1..Len(written[k].pages) :
                   a < b => written[k].pages[a] < written[k].pages[b]

\* a document of MaxPages pages split into a front part and a range of two
\* pages or more, nothing having raised
C22_Witness ==
    /\ SplitReturned
    /\ total_pages = MaxPages
    /\ NothingRaised
    /\ Len(written) = 2
    /\ written[1].title = FrontTitle
    /\ Len(written[2].pages) >= 2

-----------------------------------------------------------------------------
(* Claims about the hierarchy infer_bookmark_level returns *)

(* C24: the levels infer_bookmark_level returns form a well-founded          *)
(* hierarchy: the first entry has level 0, and every entry of level k > 0    *)
(* is preceded in the sequence by an entry of level k - 1; hence the level   *)
(* of an entry is at most the number of entries before it.                   *)
C24_WellFoundedLevels ==
    (InferReturned /\ inferred # <<>>) =>
        /\ inferred[1].level = 0
        /\ \A i \in 1..Len(inferred) :
               /\ inferred[i].level >= 0
               /\ inferred[i].level <= i - 1
               /\ inferred[i].level > 0 =>
                      \E j \in 1..(i - 1) : inferred[j].level = inferred[i].level - 1

\* a chain of three levels, from an input whose first entry came with level 1
C24_Witness ==
    /\ InferReturned
    /\ Len(inferred) = 3
    /\ bookmarks[1].level = 1
    /\ inferred[1].level = 0
    /\ inferred[2].level = 1
    /\ inferred[3].level = 2

====
